---- MODULE Spec2Model ----
(***************************************************************************)
(* Model of the two programs of the repository:                            *)
(*   task1.py  QuickSort with a fixed (last element) and a random pivot,   *)
(*   task2.py  the greedy set-cover scheduler create_schedule.             *)
(* Python lists are TLA+ sequences; Python indices are kept 0-based, so    *)
(* the element arr[k] of the source is At(a, k) = a[k + 1] here.           *)
(* Lists live in a heap of objects addressed by references, so that        *)
(* arr.copy() and aliasing are distinguishable.                            *)
(***************************************************************************)
EXTENDS Integers, Sequences, FiniteSets, TLC

\* ------------------------------------------------------------------ bounds
\* longest list handed to the sort
MaxLen == 4
\* list elements are drawn from 1..MaxVal
MaxVal == 4
\* largest teacher pool handed to create_schedule
MaxTeachers == 3

\* the subjects teachers are built from, and two of the ages of __main__'s teachers
AllSubjects == {"A", "B", "C"}
Ages == {29, 35}

Values == 1..MaxVal

\* the reference of the caller's list, and of the list arr.copy() allocates
CallerRef == 1
FreshRef == 2
\* best_teacher = None
None == 0

VARIABLES
  \* ---- task1.py
  heap,        \* reference -> list object
  arr,         \* parameter arr of deterministic_quick_sort / randomized_quick_sort
  arr_copy,    \* local arr_copy (a reference; None before the copy)
  part_arr,    \* parameter arr of the helpers and the partition functions
  policy,      \* which sort was called: "Fixed", "Random" ("none": not yet, "direct":
               \* deterministic_partition called on its own)
  stack,       \* pending helper calls <<low, high>>, innermost first
  low, high,   \* parameters of the running helper / partition call
  pivot, i, j, \* locals of deterministic_partition
  pi,          \* value deterministic_partition returned
  pc,          \* position in task1.py
  input,       \* contents of the caller's list when the call was made
  ret,         \* reference returned by the sort (None before)
  \* ---- task2.py
  subjects,            \* parameter subjects
  teachers,            \* parameter teachers: the Teacher objects in pool order;
                       \* a Teacher's identity is its position in the pool
  uncovered_subjects,
  available_teachers,  \* list of Teacher identities
  selected_teachers,   \* list of Teacher identities
  best_teacher,
  max_coverage,
  step,
  printed,             \* the set printed by line 87 (as a one-element sequence), or << >>
  result,              \* the value create_schedule returned
  spc                  \* position in create_schedule

sortVars == <<heap, arr, arr_copy, part_arr, policy, stack, low, high, pivot, i, j,
              pi, pc, input, ret>>
schedVars == <<subjects, teachers, uncovered_subjects, available_teachers,
               selected_teachers, best_teacher, max_coverage, step, printed, result, spc>>
vars == <<heap, arr, arr_copy, part_arr, policy, stack, low, high, pivot, i, j,
          pi, pc, input, ret, subjects, teachers, uncovered_subjects,
          available_teachers, selected_teachers, best_teacher, max_coverage, step,
          printed, result, spc>>

\* ------------------------------------------------------------------ lists
At(a, k) == a[k + 1]

\* a[x], a[y] = a[y], a[x]
Swap(a, x, y) == [a EXCEPT ![x + 1] = a[y + 1], ![y + 1] = a[x + 1]]

SeqsUpTo(n) == UNION {[1..m -> Values] : m \in 0..n}

\* ================================================================== task1.py

\* arr.copy(): a new list object
ListCopyAlias(ref) == ref
ListCopy(ref) == FreshRef

\* arr[j] <= pivot
LeqPivotStrict(x, p) == x < p
LeqPivot(x, p) == x <= p

\* the second recursive call's lower end: pi + 1
RightLowSkip(p) == p + 2
RightLow(p) == p + 1

SortIdle ==
  /\ arr_copy = None /\ part_arr = None /\ stack = << >>
  /\ low = 0 /\ high = 0 /\ pivot = 0 /\ i = 0 /\ j = 0 /\ pi = 0 /\ ret = None

\* deterministic_quick_sort(arr) / randomized_quick_sort(arr): lines 58-59, 68-69
QuickSortCall(p) ==
  /\ pc = "idle"
  /\ policy' = p
  /\ arr_copy' = ListCopy(arr)
  /\ heap' = [heap EXCEPT ![arr_copy'] = heap[arr]]
  /\ part_arr' = arr_copy'
  /\ stack' = << <<0, Len(heap[arr]) - 1>> >>
  /\ pc' = "helper"
  /\ UNCHANGED <<arr, low, high, pivot, i, j, pi, input, ret>>
  /\ UNCHANGED schedVars

deterministic_quick_sort == QuickSortCall("Fixed")
randomized_quick_sort == QuickSortCall("Random")

\* a helper call begins: `if low < high:` and, when true, the call of the partition
HelperCall(p, partition) ==
  /\ pc = "helper" /\ policy = p /\ stack # << >>
  /\ LET l == Head(stack)[1]
         h == Head(stack)[2]
     IN /\ stack' = Tail(stack)
        /\ IF l < h
           THEN /\ low' = l /\ high' = h /\ pc' = partition
           ELSE UNCHANGED <<low, high, pc>>
  /\ UNCHANGED <<heap, arr, arr_copy, part_arr, policy, pivot, i, j, pi, input, ret>>
  /\ UNCHANGED schedVars

\* after the partition returned pi: the two recursive calls, left first
HelperRecurse(p) ==
  /\ pc = "part_ret" /\ policy = p
  /\ stack' = << <<low, pi - 1>>, <<RightLow(pi), high>> >> \o stack
  /\ pc' = "helper"
  /\ UNCHANGED <<heap, arr, arr_copy, part_arr, policy, low, high, pivot, i, j, pi,
                 input, ret>>
  /\ UNCHANGED schedVars

deterministic_quick_sort_helper ==
  HelperCall("Fixed", "part_entry") \/ HelperRecurse("Fixed")
randomized_quick_sort_helper ==
  HelperCall("Random", "rand_part") \/ HelperRecurse("Random")

\* randomized_partition: lines 30-34, random.randint(low, high) is inclusive
randomized_partition ==
  /\ pc = "rand_part"
  /\ \E random_index \in low..high :
       heap' = [heap EXCEPT ![part_arr] = Swap(heap[part_arr], random_index, high)]
  /\ pc' = "part_entry"
  /\ UNCHANGED <<arr, arr_copy, part_arr, policy, stack, low, high, pivot, i, j, pi,
                 input, ret>>
  /\ UNCHANGED schedVars

\* deterministic_partition, lines 12-13
PartitionEntry ==
  /\ pc = "part_entry"
  /\ pivot' = At(heap[part_arr], high)
  /\ i' = low - 1
  /\ j' = low
  /\ pc' = "part_loop"
  /\ UNCHANGED <<heap, arr, arr_copy, part_arr, policy, stack, low, high, pi, input, ret>>
  /\ UNCHANGED schedVars

\* deterministic_partition, one iteration of `for j in range(low, high)`: lines 15-18
PartitionLoop ==
  /\ pc = "part_loop" /\ j < high
  /\ IF LeqPivot(At(heap[part_arr], j), pivot)
     THEN /\ i' = i + 1
          /\ heap' = [heap EXCEPT ![part_arr] = Swap(heap[part_arr], i + 1, j)]
     ELSE UNCHANGED <<i, heap>>
  /\ j' = j + 1
  /\ UNCHANGED <<arr, arr_copy, part_arr, policy, stack, low, high, pivot, pi, pc,
                 input, ret>>
  /\ UNCHANGED schedVars

\* deterministic_partition, after the loop: lines 20-21
PartitionReturn ==
  /\ pc = "part_loop" /\ j >= high
  /\ heap' = [heap EXCEPT ![part_arr] = Swap(heap[part_arr], i + 1, high)]
  /\ pi' = i + 1
  /\ pc' = "part_ret"
  /\ UNCHANGED <<arr, arr_copy, part_arr, policy, stack, low, high, pivot, i, j,
                 input, ret>>
  /\ UNCHANGED schedVars

deterministic_partition == PartitionEntry \/ PartitionLoop \/ PartitionReturn

\* the outermost helper call returned: `return arr_copy`, lines 60, 70
QuickSortReturn ==
  /\ pc = "helper" /\ stack = << >>
  /\ ret' = arr_copy
  /\ pc' = "done"
  /\ UNCHANGED <<heap, arr, arr_copy, part_arr, policy, stack, low, high, pivot, i, j,
                 pi, input>>
  /\ UNCHANGED schedVars

\* ================================================================== task2.py

\* Teacher.__init__: lines 14-19 (name and email play no part in the algorithm)
Teacher(age, can_teach_subjects) ==
  [age |-> age, can_teach_subjects |-> can_teach_subjects, assigned_subjects |-> {}]

SchedIdle ==
  /\ subjects = {} /\ teachers = << >> /\ uncovered_subjects = {}
  /\ available_teachers = << >> /\ selected_teachers = << >>
  /\ best_teacher = None /\ max_coverage = 0 /\ step = 0
  /\ printed = << >> /\ result = [kind |-> "pending"] /\ spc = "idle"

\* ------------------------------------------------------------------ helpers

RECURSIVE Remove(_, _)
\* list.remove(x): drops the first element equal to x
Remove(seq, x) ==
  IF seq = << >> THEN << >>
  ELSE IF Head(seq) = x THEN Tail(seq)
  ELSE <<Head(seq)>> \o Remove(Tail(seq), x)

Range(seq) == {seq[k] : k \in 1..Len(seq)}

\* ------------------------------------------------------------------ create_schedule

\* `teacher.assigned_subjects = set()`, line 56
ResetAssignedKeep(t) == t.assigned_subjects
ResetAssigned(t) == {}

\* `while uncovered_subjects:`, line 65
LoopCondOffByOne(unc) == Cardinality(unc) > 1
LoopCond(unc) == unc # {}

\* `teacher.can_teach_subjects & uncovered_subjects`, line 75
CanCover(t, unc) == teachers[t].can_teach_subjects \cap unc

\* `subjects_to_assign = best_teacher.can_teach_subjects & uncovered_subjects`, line 91
SubjectsToAssignAll(t, unc) == teachers[t].can_teach_subjects
SubjectsToAssign(t, unc) == teachers[t].can_teach_subjects \cap unc

\* `coverage = len(...)`, line 75
Coverage(t, unc) == Cardinality(CanCover(t, unc))

\* `teacher.age < best_teacher.age`, line 82
YoungerOrSame(t, best) == teachers[t].age <= teachers[best].age
Younger(t, best) == teachers[t].age < teachers[best].age

\* `coverage > max_coverage`, line 77
MoreCoverage(coverage, maxc) == coverage > maxc

\* `best_teacher is None or max_coverage == 0`, line 86
ImpossibleBelowTwo(best, maxc) == best = None \/ maxc <= 1
Impossible(best, maxc) == best = None \/ maxc = 0

\* `available_teachers.remove(best_teacher)`, line 99
RemoveTeacherForgotten(avail, best) == avail
RemoveTeacher(avail, best) == Remove(avail, best)

RECURSIVE Scan(_, _, _, _, _)
\* `for teacher in available_teachers:` from position k on, lines 73-83, with the
\* values best_teacher and max_coverage have before that iteration
Scan(avail, unc, k, best, maxc) ==
  IF k > Len(avail) THEN [best_teacher |-> best, max_coverage |-> maxc]
  ELSE LET teacher == avail[k]
           coverage == Coverage(teacher, unc)
       IN IF MoreCoverage(coverage, maxc)
          THEN Scan(avail, unc, k + 1, teacher, coverage)
          ELSE IF coverage = maxc /\ coverage > 0
               THEN IF Younger(teacher, best)
                    THEN Scan(avail, unc, k + 1, teacher, maxc)
                    ELSE Scan(avail, unc, k + 1, best, maxc)
               ELSE Scan(avail, unc, k + 1, best, maxc)

\* lines 70-83: best_teacher = None, max_coverage = 0, then the scan
FindBest(avail, unc) == Scan(avail, unc, 1, None, 0)

\* lines 50-63: the copies and the reset of every pool teacher's assigned_subjects
create_schedule_begin ==
  /\ spc = "call"
  /\ uncovered_subjects' = subjects
  /\ available_teachers' = [k \in 1..Len(teachers) |-> k]
  /\ selected_teachers' = << >>
  /\ teachers' = [k \in 1..Len(teachers) |->
                    [teachers[k] EXCEPT !.assigned_subjects = ResetAssigned(teachers[k])]]
  /\ step' = 1
  /\ spc' = "loop"
  /\ UNCHANGED <<subjects, best_teacher, max_coverage, printed, result>>
  /\ UNCHANGED sortVars

\* one iteration of the while loop that selects a teacher: lines 65-105
round_select ==
  /\ spc = "loop" /\ LoopCond(uncovered_subjects)
  /\ LET found == FindBest(available_teachers, uncovered_subjects)
     IN /\ ~Impossible(found.best_teacher, found.max_coverage)
        /\ best_teacher' = found.best_teacher
        /\ max_coverage' = found.max_coverage
        /\ LET subjects_to_assign == SubjectsToAssign(found.best_teacher, uncovered_subjects)
           IN /\ teachers' = [teachers EXCEPT
                                ![found.best_teacher].assigned_subjects = subjects_to_assign]
              /\ uncovered_subjects' = uncovered_subjects \ subjects_to_assign
        /\ available_teachers' = RemoveTeacher(available_teachers, found.best_teacher)
        /\ selected_teachers' = Append(selected_teachers, found.best_teacher)
  /\ step' = step + 1
  /\ UNCHANGED <<subjects, printed, result, spc>>
  /\ UNCHANGED sortVars

\* the iteration of the while loop that gives up: lines 65-88
round_impossible ==
  /\ spc = "loop" /\ LoopCond(uncovered_subjects)
  /\ LET found == FindBest(available_teachers, uncovered_subjects)
     IN /\ Impossible(found.best_teacher, found.max_coverage)
        /\ best_teacher' = found.best_teacher
        /\ max_coverage' = found.max_coverage
  /\ printed' = <<uncovered_subjects>>
  /\ result' = [kind |-> "None"]
  /\ spc' = "done"
  /\ UNCHANGED <<subjects, teachers, uncovered_subjects, available_teachers,
                 selected_teachers, step>>
  /\ UNCHANGED sortVars

\* the loop condition is false: lines 65, 107-108
create_schedule_return ==
  /\ spc = "loop" /\ ~LoopCond(uncovered_subjects)
  /\ result' = [kind |-> "list", teachers |-> selected_teachers]
  /\ spc' = "done"
  /\ UNCHANGED <<subjects, teachers, uncovered_subjects, available_teachers,
                 selected_teachers, best_teacher, max_coverage, step, printed>>
  /\ UNCHANGED sortVars

\* analyze_coverage: lines 143-154
RECURSIVE all_teachable_subjects(_)
all_teachable_subjects(k) ==
  IF k = 0 THEN {}
  ELSE all_teachable_subjects(k - 1) \cup teachers[k].can_teach_subjects

analyze_coverage ==
  LET missing_subjects == subjects \ all_teachable_subjects(Len(teachers))
  IN missing_subjects = {}

\* ------------------------------------------------------------------ task1 runs

\* a caller holds a list and has not called a sort yet
SortInit ==
  /\ \E a \in SeqsUpTo(MaxLen) :
       /\ heap = [r \in {CallerRef, FreshRef} |-> IF r = CallerRef THEN a ELSE << >>]
       /\ input = a
  /\ arr = CallerRef
  /\ policy = "none"
  /\ pc = "idle"
  /\ SortIdle
  /\ SchedIdle

SortNext ==
  \/ deterministic_quick_sort
  \/ randomized_quick_sort
  \/ deterministic_quick_sort_helper
  \/ randomized_quick_sort_helper
  \/ randomized_partition
  \/ deterministic_partition
  \/ QuickSortReturn

SortSpec == SortInit /\ [][SortNext]_vars

\* deterministic_partition(arr, low, high) called on its own, on any list and any
\* 0 <= low <= high < len(arr)
PartitionInit ==
  /\ \E a \in SeqsUpTo(MaxLen) : \E l \in 0..(Len(a) - 1) : \E h \in l..(Len(a) - 1) :
       /\ heap = [r \in {CallerRef, FreshRef} |-> IF r = CallerRef THEN a ELSE << >>]
       /\ input = a
       /\ low = l /\ high = h
  /\ arr = CallerRef
  /\ part_arr = CallerRef
  /\ policy = "direct"
  /\ pc = "part_entry"
  /\ arr_copy = None /\ stack = << >>
  /\ pivot = 0 /\ i = 0 /\ j = 0 /\ pi = 0 /\ ret = None
  /\ SchedIdle

PartitionNext == deterministic_partition

PartitionSpec == PartitionInit /\ [][PartitionNext]_vars

\* ------------------------------------------------------------------ task2 runs

\* Teacher objects built by the constructor; `used` says that each was handed to an
\* earlier run as its only teacher, with its own subjects, which left
\* assigned_subjects = can_teach_subjects behind.
Pools(used) ==
  UNION {[1..n -> {[Teacher(a, c) EXCEPT !.assigned_subjects = IF used THEN c ELSE {}] :
                     a \in Ages, c \in SUBSET AllSubjects}] : n \in 0..MaxTeachers}

\* Subject names are interchangeable (the code only intersects and counts sets of
\* them) and the capability sets range over every subset of AllSubjects, so the
\* subjects to cover are drawn up to renaming: one set of each size.
SubjectSets == {{}, {"A"}, {"A", "B"}, {"A", "B", "C"}}

SchedInit ==
  /\ subjects \in SubjectSets
  /\ \E used \in BOOLEAN : teachers \in Pools(used)
  /\ uncovered_subjects = {}
  /\ available_teachers = << >> /\ selected_teachers = << >>
  /\ best_teacher = None /\ max_coverage = 0 /\ step = 0
  /\ printed = << >> /\ result = [kind |-> "pending"] /\ spc = "call"
  /\ heap = [r \in {CallerRef, FreshRef} |-> << >>]
  /\ arr = CallerRef /\ input = << >> /\ policy = "none" /\ pc = "idle"
  /\ SortIdle

SchedNext ==
  \/ create_schedule_begin
  \/ round_select
  \/ round_impossible
  \/ create_schedule_return

ScheduleSpec == SchedInit /\ [][SchedNext]_vars

\* ================================================================== claims

\* ------------------------------------------------------------------ task1.py

RECURSIVE Insert(_, _)
Insert(x, seq) ==
  IF seq = << >> THEN <<x>>
  ELSE IF x <= Head(seq) THEN <<x>> \o seq
  ELSE <<Head(seq)>> \o Insert(x, Tail(seq))

RECURSIVE sorted(_)
\* the reference ascending sort (Python's sorted), by insertion
sorted(seq) == IF seq = << >> THEN << >> ELSE Insert(Head(seq), sorted(Tail(seq)))

\* number of positions of a in lo..hi (0-based) that hold v
Count(a, lo, hi, v) == Cardinality({k \in lo..hi : At(a, k) = v})

\* C1: when either sort returns, the returned list is the reference ascending sort
\* of the input: non-decreasing and with every value as often as in the input; for
\* the random pivot this holds on every path of pivot draws.
C1_SortCorrect ==
  pc = "done" =>
    LET out == heap[ret]
    IN /\ out = sorted(input)
       /\ \A k \in 1..(Len(out) - 1) : out[k] <= out[k + 1]
       /\ Len(out) = Len(input)
       /\ \A v \in Range(input) \cup Range(out) :
            Count(out, 0, Len(out) - 1, v) = Count(input, 0, Len(input) - 1, v)

\* the random-pivot sort returned a list of three or more elements that it had to
\* reorder
C1_Witness ==
  /\ pc = "done" /\ policy = "Random"
  /\ Len(input) >= 3
  /\ heap[ret] # input

\* C6: the caller's list holds the same elements in the same positions throughout
\* and after the call; the swaps happen on another list object, which is returned.
C6_InputUnchanged ==
  /\ heap[arr] = input
  /\ pc = "done" => ret # arr

\* a sort returned a reordered list while the caller's list is as it was
C6_Witness ==
  /\ pc = "done"
  /\ heap[ret] # input
  /\ heap[arr] = input

\* C8: when deterministic_partition(arr, low, high) returns p: low <= p <= high,
\* arr[p] is the element that was at high, arr[low..p-1] <= arr[p] < arr[p+1..high],
\* arr[low..high] is a permutation of what it was, and the rest is unchanged.
C8_PartitionPost ==
  pc = "part_ret" =>
    LET a == heap[part_arr]
    IN /\ low <= pi /\ pi <= high
       /\ Len(a) = Len(input)
       /\ At(a, pi) = At(input, high)
       /\ \A k \in low..(pi - 1) : At(a, k) <= At(a, pi)
       /\ \A k \in (pi + 1)..high : At(a, k) > At(a, pi)
       /\ \A v \in Values : Count(a, low, high, v) = Count(input, low, high, v)
       /\ \A k \in 0..(Len(a) - 1) : (k < low \/ k > high) => At(a, k) = At(input, k)

\* a partition of a proper subrange returned with elements on both sides of the
\* pivot, the range reordered and an element beyond the range
C8_Witness ==
  /\ pc = "part_ret"
  /\ low < pi /\ pi < high
  /\ high < Len(input) - 1
  /\ heap[part_arr] # input

\* ------------------------------------------------------------------ task2.py

\* s is a subject to cover that no teacher of the pool can teach
NoTeacherFor(s) ==
  /\ s \in subjects
  /\ \A k \in 1..Len(teachers) : s \notin teachers[k].can_teach_subjects

\* |can_teach_subjects & unc| of teacher t, written out
CoverageOf(t, unc) == Cardinality(teachers[t].can_teach_subjects \cap unc)

\* position of teacher t in the list seq
PositionIn(seq, t) == CHOOSE k \in 1..Len(seq) : seq[k] = t

Min(a, b) == IF a <= b THEN a ELSE b

\* C2: when create_schedule returns a list, the assigned_subjects of the returned
\* teachers cover subjects exactly and are pairwise disjoint.
C2_ExactPartition ==
  result.kind = "list" =>
    LET sel == Range(result.teachers)
    IN /\ UNION {teachers[t].assigned_subjects : t \in sel} = subjects
       /\ \A t, u \in sel :
            t # u => teachers[t].assigned_subjects \cap teachers[u].assigned_subjects = {}

\* a successful run of two or more teachers, one of which was given fewer subjects
\* than it can teach because another teacher already had them
C2_Witness ==
  /\ result.kind = "list"
  /\ Len(result.teachers) >= 2
  /\ \E t \in Range(result.teachers) :
       teachers[t].assigned_subjects # teachers[t].can_teach_subjects \cap subjects

\* the residual set a returned value carries: None carries nothing
Residual(r) == IF "residual" \in DOMAIN r THEN r.residual ELSE {}

\* C3 as claimed: with a subject no teacher can teach, the returned outcome is the
\* Uncoverable one and carries a residual set holding that subject.
C3_ResidualReturned ==
  spc = "done" =>
    \A s \in subjects :
      NoTeacherFor(s) => result.kind = "None" /\ s \in Residual(result)

\* C3 amended: with a subject no teacher can teach, create_schedule returns None,
\* which carries no residual set; the set of uncovered subjects is printed before
\* the return, and that subject is in it.
C3_ResidualPrinted ==
  spc = "done" =>
    \A s \in subjects :
      NoTeacherFor(s) =>
        /\ result = [kind |-> "None"]
        /\ printed = <<uncovered_subjects>>
        /\ s \in printed[1]

\* a run that selected a teacher and then failed on a subject no teacher can teach
C3_Witness ==
  /\ spc = "done"
  /\ \E s \in subjects : NoTeacherFor(s)
  /\ Len(selected_teachers) >= 1
  /\ printed # << >> /\ printed[1] # subjects

\* C4 as claimed: after a run that reports Uncoverable no teacher of the pool holds
\* a non-empty assigned_subjects.
C4_NothingAssignedOnFailure ==
  result.kind = "None" =>
    \A k \in 1..Len(teachers) : teachers[k].assigned_subjects = {}

\* C4 amended: a run that reports Uncoverable returns None, so the selected list is
\* discarded, but the assignments are not: exactly the teachers selected in the
\* rounds before the failure hold a non-empty assigned_subjects (what they covered
\* when selected), every other teacher of the pool holds the empty set.
C4_PartialAssignmentsKept ==
  result.kind = "None" =>
    /\ DOMAIN result = {"kind"}
    /\ \A k \in 1..Len(teachers) :
         /\ teachers[k].assigned_subjects # {} <=> k \in Range(selected_teachers)
         /\ teachers[k].assigned_subjects \subseteq
              teachers[k].can_teach_subjects \cap (subjects \ uncovered_subjects)

\* a failed run that had selected a teacher and left another one unselected
C4_Witness ==
  /\ result.kind = "None"
  /\ Len(selected_teachers) >= 1
  /\ Len(available_teachers) >= 1
  /\ \E k \in 1..Len(teachers) : teachers[k].assigned_subjects # {}

\* a round that selects a teacher picks, among the available teachers, one of
\* maximum coverage of the uncovered subjects, among those the youngest, and among
\* those the first in the pool's order
C5_Round ==
  (spc = "loop" /\ Len(selected_teachers') = Len(selected_teachers) + 1) =>
    LET b == best_teacher'
        avail == Range(available_teachers)
    IN /\ b \in avail
       /\ selected_teachers' = Append(selected_teachers, b)
       /\ CoverageOf(b, uncovered_subjects) > 0
       /\ \A t \in avail :
            /\ CoverageOf(t, uncovered_subjects) <= CoverageOf(b, uncovered_subjects)
            /\ CoverageOf(t, uncovered_subjects) = CoverageOf(b, uncovered_subjects)
                 => teachers[b].age <= teachers[t].age
            /\ ( /\ CoverageOf(t, uncovered_subjects) = CoverageOf(b, uncovered_subjects)
                 /\ teachers[t].age = teachers[b].age )
                 => PositionIn(available_teachers, b) <= PositionIn(available_teachers, t)

\* C5: in every round the selected teacher has the maximum coverage among the
\* available ones, the smallest age among those tied at it, and the first pool
\* position among those tied on age too.
C5_GreedyChoice == [][C5_Round]_vars

\* the first round chose a teacher over an older one placed before it and over one
\* of the same age placed after it, all three with the same coverage
C5_Witness ==
  /\ spc = "loop" /\ Len(selected_teachers) = 1
  /\ LET b == selected_teachers[1]
     IN \E t, u \in 1..Len(teachers) :
          /\ t < b /\ b < u
          /\ CoverageOf(t, subjects) = CoverageOf(b, subjects)
          /\ CoverageOf(u, subjects) = CoverageOf(b, subjects)
          /\ teachers[t].age > teachers[b].age
          /\ teachers[u].age = teachers[b].age

\* C7: with no subject to cover, create_schedule returns the empty list, which is
\* not None, and every teacher of the pool holds an empty assigned_subjects.
C7_EmptySubjects ==
  (spc = "done" /\ subjects = {}) =>
    /\ result = [kind |-> "list", teachers |-> << >>]
    /\ result.kind # "None"
    /\ \A k \in 1..Len(teachers) : teachers[k].assigned_subjects = {}

\* a run with no subject on a pool of teachers that can teach something
C7_Witness ==
  /\ spc = "done" /\ subjects = {}
  /\ Len(teachers) >= 2
  /\ \A k \in 1..Len(teachers) : teachers[k].can_teach_subjects # {}

\* one step of create_schedule: a round that does not end the run strictly shrinks
\* uncovered_subjects and available_teachers; the rounds so far are at most
\* min(|subjects|, |teachers|); no teacher is selected twice; and the run has ended
\* with a list or with None, or its next step can be taken
C9_Step ==
  /\ (spc = "loop" /\ spc' = "loop") =>
       /\ uncovered_subjects' \subseteq uncovered_subjects
       /\ uncovered_subjects' # uncovered_subjects
       /\ Len(available_teachers') < Len(available_teachers)
       /\ Range(available_teachers') \subseteq Range(available_teachers)
  /\ Len(selected_teachers') <= Min(Cardinality(subjects), Len(teachers))
  /\ step' = Len(selected_teachers') + 1
  /\ Cardinality(Range(selected_teachers')) = Len(selected_teachers')
  /\ spc' \in {"loop", "done"}
  /\ spc' = "done" => result'.kind \in {"list", "None"}
  /\ spc' # "done" => (ENABLED SchedNext)'

\* C9: create_schedule ends with success or Uncoverable after at most
\* min(|subjects|, |teachers|) selection rounds, each of which strictly shrinks
\* uncovered_subjects and available_teachers, and selects no teacher twice.
C9_Terminates == [][C9_Step]_vars

\* a run that needed as many rounds as the bound allows, two or more
C9_Witness ==
  /\ spc = "done"
  /\ Len(selected_teachers) >= 2
  /\ Len(selected_teachers) = Min(Cardinality(subjects), Len(teachers))

\* C10: create_schedule reports Uncoverable exactly when some subject belongs to no
\* teacher's can_teach_subjects, that is exactly when analyze_coverage says the
\* subjects cannot all be covered.
C10_UncoverableIff ==
  spc = "done" =>
    /\ result.kind = "None" <=> (\E s \in subjects : NoTeacherFor(s))
    /\ result.kind = "list" <=> analyze_coverage

\* a run that succeeded on overlapping teachers, leaving one of them unused
C10_Witness ==
  /\ spc = "done" /\ result.kind = "list"
  /\ analyze_coverage
  /\ Len(result.teachers) >= 2
  /\ Len(available_teachers) >= 1
  /\ \E t, u \in 1..Len(teachers) :
       t # u /\ teachers[t].can_teach_subjects \cap teachers[u].can_teach_subjects # {}

====
